---- MODULE Spec2Model ----
(***************************************************************************)
(* A model of TcgPlayerCardParser.py: the offer-text parser                *)
(* (sanitize_card_text), the price filter (find_matching_offers), the page *)
(* extractor (scrape_page) and the driver (main).                          *)
(*                                                                         *)
(* Text is a sequence of one-character strings, so that find, slice,       *)
(* split, replace and strip are computed character by character as Python  *)
(* computes them.  A price is held in hundredths (0.05 is 5): every price  *)
(* text of the model has at most two fractional digits, for which float()  *)
(* is exact enough to order the values as the integers do.                 *)
(***************************************************************************)
EXTENDS Integers, Sequences, FiniteSets, TLC

VARIABLES
    \* sanitize_card_text called on its own
    card_text,            \* the argument
    pieces,               \* the pieces card_text was written from
    parse_result,         \* what the call returned or raised
    ppc,                  \* "idle" | "called" | "returned"
    \* find_matching_offers called on its own
    f_src,                \* per offer, the pieces its text was written from
    f_offers,             \* the argument offers: a list of offer texts
    f_value,              \* the argument value
    f_comparison,         \* the argument comparison
    f_result,             \* what the call returned or raised
    fpc,                  \* "idle" | "called" | "returned"
    \* main
    site,                 \* the site: per page, what each request would answer
    cpu,                  \* what cpu_count() answers
    value,                \* main's argument value
    comparison,           \* main's argument comparison
    pc,                   \* main's position
    responses,            \* line 88
    attempts,             \* per page, the number of requests sent
    successful_responses, \* line 90
    processes,            \* the pool's size, 0 before the pool exists
    next_task,            \* the next index of successful_responses to hand out
    running,              \* the indexes a pool worker is scraping now
    data,                 \* line 93, per index the worker's result
    listy_i,              \* the index of the loop of line 94
    all_matching_cards,   \* line 85
    csv,                  \* the file of line 101
    exc                   \* the exception that ended main

parse_vars == <<card_text, pieces, parse_result, ppc>>
filter_vars == <<f_src, f_offers, f_value, f_comparison, f_result, fpc>>
main_vars == <<site, cpu, value, comparison, pc, responses, attempts,
               successful_responses, processes, next_task, running, data,
               listy_i, all_matching_cards, csv, exc>>
vars == <<parse_vars, filter_vars, main_vars>>

----------------------------------------------------------------------------
(* Python's str operations, on sequences of characters.                    *)

None == [kind |-> "None"]

Q == "\""

\* str.find(ch): the 0-based index of the first ch, -1 when there is none.
Find(s, ch) ==
    IF \E i \in 1..Len(s) : s[i] = ch
    THEN (CHOOSE i \in 1..Len(s) : s[i] = ch /\ \A j \in 1..(i - 1) : s[j] # ch) - 1
    ELSE -1

\* s[a:b] for a >= 0: a negative b counts from the end.
Slice(s, a, b) ==
    LET stop == IF b < 0 THEN (IF Len(s) + b < 0 THEN 0 ELSE Len(s) + b) ELSE b
    IN  SubSeq(s, a + 1, IF stop > Len(s) THEN Len(s) ELSE stop)

\* str.split(ch): the pieces between the occurrences of ch, at least one.
RECURSIVE Split(_, _)
Split(s, ch) ==
    LET i == Find(s, ch)
    IN  IF i = -1 THEN <<s>>
        ELSE <<SubSeq(s, 1, i)>> \o Split(SubSeq(s, i + 2, Len(s)), ch)

\* str.replace(ch, ''): every occurrence of the character removed.
Replace(s, ch) == SelectSeq(s, LAMBDA c : c # ch)

\* str.replace('\r\n', ''): every occurrence of the two characters removed,
\* scanning from the left.
RECURSIVE ReplaceCRLF(_)
ReplaceCRLF(s) ==
    IF Len(s) = 0 THEN s
    ELSE IF Len(s) >= 2 /\ s[1] = "\r" /\ s[2] = "\n"
         THEN ReplaceCRLF(SubSeq(s, 3, Len(s)))
         ELSE <<s[1]>> \o ReplaceCRLF(Tail(s))

Whitespace == {" ", "\n", "\r", "\t"}

\* str.strip(): leading and trailing whitespace removed.
RECURSIVE Strip(_)
Strip(s) ==
    IF Len(s) = 0 THEN s
    ELSE IF s[1] \in Whitespace THEN Strip(Tail(s))
    ELSE IF s[Len(s)] \in Whitespace THEN Strip(SubSeq(s, 1, Len(s) - 1))
    ELSE s

Digits == <<"0", "1", "2", "3", "4", "5", "6", "7", "8", "9">>

IsDigit(c) == \E d \in 1..10 : Digits[d] = c

DigitValue(c) == (CHOOSE d \in 1..10 : Digits[d] = c) - 1

RECURSIVE Decimal(_)
Decimal(s) == IF Len(s) = 0 THEN 0
              ELSE 10 * Decimal(SubSeq(s, 1, Len(s) - 1)) + DigitValue(s[Len(s)])

\* float(s) accepts (among forms the model's texts never take: exponents,
\* inf, nan, underscores) surrounding whitespace, an optional sign, digits
\* and at most one point, with at least one digit.
FloatParses(s) ==
    LET t == Strip(s)
        u == IF Len(t) > 0 /\ t[1] \in {"+", "-"} THEN Tail(t) ELSE t
        p == Find(u, ".")
        whole == IF p = -1 THEN u ELSE SubSeq(u, 1, p)
        frac == IF p = -1 THEN <<>> ELSE SubSeq(u, p + 2, Len(u))
    IN  /\ Len(whole) + Len(frac) > 0
        /\ \A i \in 1..Len(whole) : IsDigit(whole[i])
        /\ \A i \in 1..Len(frac) : IsDigit(frac[i])

\* float(s) in hundredths, for a text float() accepts; digits past the
\* second fractional one are below the model's resolution.
Float(s) ==
    LET t == Strip(s)
        neg == Len(t) > 0 /\ t[1] = "-"
        u == IF Len(t) > 0 /\ t[1] \in {"+", "-"} THEN Tail(t) ELSE t
        p == Find(u, ".")
        whole == IF p = -1 THEN u ELSE SubSeq(u, 1, p)
        frac == IF p = -1 THEN <<>> ELSE SubSeq(u, p + 2, Len(u))
        f1 == IF Len(frac) >= 1 THEN DigitValue(frac[1]) ELSE 0
        f2 == IF Len(frac) >= 2 THEN DigitValue(frac[2]) ELSE 0
        v == 100 * Decimal(whole) + 10 * f1 + f2
    IN  IF neg THEN 0 - v ELSE v

----------------------------------------------------------------------------
(* sanitize_card_text                                                      *)

CardOffer(name, price) ==
    [kind |-> "CardOffer", card_name |-> name, card_price |-> price]

Raise(e) == [kind |-> "raise", exc |-> e]

PRODUCT_NAME == <<"p", "r", "o", "d", "u", "c", "t", "_", "n", "a", "m", "e">>
PRICE == <<"p", "r", "i", "c", "e">>

Quoted(s) == <<Q>> \o s \o <<Q>>

\* Line 34 with what replace returns dropped, as lines 26 and 27 drop it.
DictKeyAsWritten(text) == text

\* Line 34's key: spaces and '\r\n' removed.
DictKey(text) == ReplaceCRLF(Replace(text, " "))

\* card_dict[key] after the loop of lines 30-34: the value of the last line
\* with that key; None stands for the KeyError.
DictGet(lines, key) ==
    LET hits == {i \in 1..Len(lines) : DictKey(Split(lines[i], ":")[1]) = key}
    IN  IF hits = {} THEN None
        ELSE [kind |-> "value",
              text |-> Split(lines[CHOOSE i \in hits : \A j \in hits : j <= i], ":")[2]]

\* Lines 25-35.  Lines 26 and 27 discard what replace returns: result is
\* unchanged by them.
sanitize_card_text(text) ==
    LET result == Slice(text, Find(text, "{") + 1, Find(text, "}"))
        lines == Split(result, ",")
    IN  IF \E i \in 1..Len(lines) : Len(Split(lines[i], ":")) # 2
        THEN Raise("RuntimeError")
        ELSE LET name == DictGet(lines, Quoted(PRODUCT_NAME))
                 price == DictGet(lines, Quoted(PRICE))
             IN  IF name = None \/ price = None THEN Raise("KeyError")
                 ELSE IF ~FloatParses(Replace(price.text, Q)) THEN Raise("ValueError")
                 ELSE CardOffer(name.text, Float(Replace(price.text, Q)))

----------------------------------------------------------------------------
(* The offer texts sanitize_card_text is called on.  A text is a prefix, a *)
(* brace, up to MaxPairs comma-separated pieces, a brace and a suffix; a   *)
(* piece carries, beside its text, what was written into it: its role, the *)
(* value as it stands after the colon (raw), the name without quotes       *)
(* (clean) and the price in hundredths (cents).                            *)

MaxPairs == 3

CardA == <<"C", "a", "r", "d", " ", "A">>
CardB == <<"C", "a", "r", "d", " ", "B">>
CardC == <<"C", "a", "r", "d", " ", "C">>

Piece(text, role, raw, clean, cents) ==
    [text |-> text, role |-> role, raw |-> raw, clean |-> clean, cents |-> cents]

NamePiece(lead, sep, name) ==
    Piece(lead \o Quoted(PRODUCT_NAME) \o <<":">> \o sep \o Quoted(name),
          "name", sep \o Quoted(name), name, 0)

PricePiece(lead, sep, text, cents) ==
    Piece(lead \o Quoted(PRICE) \o <<":">> \o sep \o Quoted(text),
          "price", sep \o Quoted(text), <<>>, cents)

Pieces ==
    { NamePiece(<<>>, <<" ">>, CardA),
      NamePiece(<<" ">>, <<>>, CardB),
      PricePiece(<<" ">>, <<" ">>, <<"0", ".", "0", "5">>, 5),
      PricePiece(<<>>, <<>>, <<"1", ".", "0", "0">>, 100),
      PricePiece(<<"\r", "\n", " ">>, <<" ">>, <<"4">>, 400),
      \* a price that is no number
      Piece(<<" ">> \o Quoted(PRICE) \o <<":", " ">> \o Quoted(<<"n", "/", "a">>),
            "badprice", <<>>, <<>>, 0),
      \* a piece with no colon
      Piece(Quoted(PRICE), "nocolon", <<>>, <<>>, 0),
      \* a piece with two colons
      Piece(Quoted(<<"u", "r", "l">>) \o <<":">> \o Quoted(<<"a", ":", "b">>),
            "twocolons", <<>>, <<>>, 0),
      \* another key
      Piece(<<" ">> \o Quoted(<<"s", "e", "t">>) \o <<":", " ">> \o Quoted(<<"M", "2", "0">>),
            "other", <<>>, <<>>, 0) }

PieceLists == UNION { [1..n -> Pieces] : n \in 1..MaxPairs }

RECURSIVE Join(_)
Join(ps) == IF Len(ps) = 0 THEN <<>>
            ELSE IF Len(ps) = 1 THEN ps[1].text
            ELSE ps[1].text \o <<",">> \o Join(Tail(ps))

Wrappings == { [pre |-> <<>>, post |-> <<>>],
               [pre |-> <<"v", "a", "r", " ", "o", "=">>, post |-> <<";", "\r", "\n">>] }

OfferText(w, ps) == w.pre \o <<"{">> \o Join(ps) \o <<"}">> \o w.post

\* The grammar of an offer text: every piece is one key, one colon and one
\* value, a product_name and a price are among them, and the price is a number.
Roles(ps) == {ps[i].role : i \in 1..Len(ps)}
WellFormed(ps) == Roles(ps) \subseteq {"name", "price", "other"}
                  /\ {"name", "price"} \subseteq Roles(ps)
Last(ps, role) == ps[CHOOSE i \in 1..Len(ps) : ps[i].role = role
                          /\ \A j \in (i + 1)..Len(ps) : ps[j].role # role]

ParseInit ==
    /\ card_text = <<>> /\ pieces = <<>> /\ parse_result = None /\ ppc = "idle"

ParseCall ==
    /\ ppc = "idle"
    /\ \E w \in Wrappings, ps \in PieceLists :
         /\ card_text' = OfferText(w, ps)
         /\ pieces' = ps
    /\ ppc' = "called"
    /\ UNCHANGED parse_result

ParseReturn ==
    /\ ppc = "called"
    /\ parse_result' = sanitize_card_text(card_text)
    /\ ppc' = "returned"
    /\ UNCHANGED <<card_text, pieces>>

ParseNext == ParseCall \/ ParseReturn

----------------------------------------------------------------------------
(* find_matching_offers                                                    *)

\* operator.le in the place of operator.lt
CompareOrEqual(cmp, a, b) ==
    CASE cmp = "lt" -> a <= b
      [] cmp = "gt" -> a > b
      [] cmp = "eq" -> a = b

\* operator.lt, operator.gt, operator.eq
Compare(cmp, a, b) ==
    CASE cmp = "lt" -> a < b
      [] cmp = "gt" -> a > b
      [] cmp = "eq" -> a = b

List(xs) == [kind |-> "list", items |-> xs]

\* The loop of lines 47-50 over the offers left, within_price_range so far;
\* an exception of sanitize_card_text leaves the function.
RECURSIVE MatchLoop(_, _, _, _)
MatchLoop(offers, v, cmp, within_price_range) ==
    IF Len(offers) = 0 THEN List(within_price_range)
    ELSE LET card_offer == sanitize_card_text(Head(offers))
         IN  IF card_offer.kind = "raise" THEN card_offer
             ELSE MatchLoop(Tail(offers), v, cmp,
                            IF Compare(cmp, card_offer.card_price, v)
                            THEN Append(within_price_range, card_offer)
                            ELSE within_price_range)

find_matching_offers(offers, v, cmp) == MatchLoop(offers, v, cmp, <<>>)

(* The offers find_matching_offers is called on: up to MaxOffers texts,    *)
(* each written from a list of pieces.                                     *)

MaxOffers == 3

Bare == [pre |-> <<>>, post |-> <<>>]

Cents(text, cents) == PricePiece(<<" ">>, <<" ">>, text, cents)

SrcA5 == <<NamePiece(<<>>, <<" ">>, CardA), Cents(<<"0", ".", "0", "5">>, 5)>>
SrcA4 == <<NamePiece(<<>>, <<>>, CardA), Cents(<<"0", ".", "0", "4">>, 4)>>
SrcB100 == <<NamePiece(<<>>, <<>>, CardB), Cents(<<"1", ".", "0", "0">>, 100)>>
SrcC5 == <<NamePiece(<<>>, <<" ">>, CardC), Cents(<<".", "0", "5">>, 5)>>
SrcC6 == <<Cents(<<"0", ".", "0", "6">>, 6), NamePiece(<<" ">>, <<" ">>, CardC)>>
SrcB5 == <<NamePiece(<<>>, <<" ">>, CardB), Cents(<<"0", ".", "0", "5">>, 5)>>
SrcNoPrice == <<NamePiece(<<>>, <<" ">>, CardB)>>

OfferSources == {SrcA5, SrcA4, SrcB100, SrcC5, SrcC6, SrcNoPrice}

Values == {5, 6}
Comparisons == {"lt", "gt", "eq"}

FilterInit ==
    /\ f_src = <<>> /\ f_offers = <<>> /\ f_value = 0 /\ f_comparison = "lt"
    /\ f_result = None /\ fpc = "idle"

FilterCall ==
    /\ fpc = "idle"
    /\ \E n \in 0..MaxOffers :
         \E src \in [1..n -> OfferSources] :
           /\ f_src' = src
           /\ f_offers' = [i \in 1..n |-> OfferText(Bare, src[i])]
    /\ f_value' \in Values
    /\ f_comparison' \in Comparisons
    /\ fpc' = "called"
    /\ UNCHANGED f_result

FilterReturn ==
    /\ fpc = "called"
    /\ f_result' = find_matching_offers(f_offers, f_value, f_comparison)
    /\ fpc' = "returned"
    /\ UNCHANGED <<f_src, f_offers, f_value, f_comparison>>

FilterNext == FilterCall \/ FilterReturn

----------------------------------------------------------------------------
(* scrape_page                                                             *)

\* A page's content: its <div class="product"> elements in order, each
\* with or without a <div class="product__offers">, that with or without a
\* <script>, that with its text.
Product(text) == [offers |-> TRUE, script |-> TRUE, text |-> text]
NoOffers == [offers |-> FALSE, script |-> FALSE, text |-> <<>>]
NoScript == [offers |-> TRUE, script |-> FALSE, text |-> <<>>]

\* Lines 67-73 with the products that lack offers skipped, not caught.
scrape_page_Partial(retrieved_page, v, cmp) ==
    LET cards == SelectSeq(retrieved_page.content, LAMBDA c : c.offers /\ c.script)
    IN  find_matching_offers([i \in 1..Len(cards) |-> cards[i].text], v, cmp)

\* Lines 67-73: find() answers None for an absent element, and the call on
\* None raises the AttributeError line 71 catches.
scrape_page(retrieved_page, v, cmp) ==
    LET cards == retrieved_page.content
    IN  IF \E i \in 1..Len(cards) : ~cards[i].offers \/ ~cards[i].script
        THEN None
        ELSE find_matching_offers([i \in 1..Len(cards) |-> cards[i].text], v, cmp)

\* Truthiness of a worker's result, line 95.
Truthy(listy) == listy.kind = "list" /\ Len(listy.items) > 0

\* Line 97: the name as it is added to all_matching_cards.
AddedName(offer) == Replace(Strip(offer.card_name), Q)

----------------------------------------------------------------------------
(* main                                                                    *)

NumPages == 3     \* stands for the 1000 pages of line 87
MaxCpu == 3       \* the largest cpu_count()

\* The pages of the site.  Beside its content a page carries what was
\* written into it: shape, and the (name, hundredths) of its offers.
SitePage(content, shape, offers) ==
    [content |-> content, shape |-> shape, offers |-> offers]

Written(name, cents) == [name |-> name, cents |-> cents]

PageAB == SitePage(<<Product(OfferText(Bare, SrcA5)), Product(OfferText(Bare, SrcB100))>>,
                   "offers", {Written(CardA, 5), Written(CardB, 100)})
PageAC == SitePage(<<Product(OfferText(Bare, SrcA4)), Product(OfferText(Bare, SrcC6))>>,
                   "offers", {Written(CardA, 4), Written(CardC, 6)})
PageB == SitePage(<<Product(OfferText(Bare, SrcB5))>>,
                  "offers", {Written(CardB, 5)})
PageEnd == SitePage(<<>>, "offers", {})
PageAbsent == SitePage(<<Product(OfferText(Bare, SrcC5)), NoOffers>>,
                       "absent", {Written(CardC, 5)})
PageNoScript == SitePage(<<NoScript, Product(OfferText(Bare, SrcC5))>>,
                         "absent", {Written(CardC, 5)})
PageMalformed == SitePage(<<Product(OfferText(Bare, SrcC5)), Product(OfferText(Bare, SrcNoPrice))>>,
                          "malformed", {Written(CardC, 5)})

\* What the site answers to the k-th request for a page: the first `fails'
\* requests fail (no response at all, or a status 500), the later ones
\* answer 200 with the page.
Response(status_code, content) ==
    [kind |-> "Response", status_code |-> status_code, content |-> content]

Answer(stub, k) ==
    IF k <= stub.fails
    THEN IF stub.failure = "transport" THEN None ELSE Response(500, <<>>)
    ELSE Response(200, stub.page.content)

Stub(fails, failure, page) == [fails |-> fails, failure |-> failure, page |-> page]

Stubs ==
    {Stub(0, "none", p) : p \in {PageAB, PageAC, PageB, PageEnd, PageAbsent, PageNoScript,
                                   PageMalformed}}
    \cup {Stub(1, f, PageAB) : f \in {"transport", "status"}}
    \cup {Stub(2, f, PageEnd) : f \in {"transport", "status"}}

Threshold == 6    \* value=0.06, line 110

Pending == [kind |-> "pending"]

Init ==
    /\ ParseInit /\ FilterInit
    /\ site \in [1..NumPages -> Stubs]
    /\ cpu \in 1..MaxCpu
    /\ value = Threshold
    /\ comparison = "lt"
    /\ pc = "start"
    /\ responses = <<>>
    /\ attempts = [p \in 1..NumPages |-> 0]
    /\ successful_responses = <<>>
    /\ processes = 0
    /\ next_task = 1
    /\ running = {}
    /\ data = <<>>
    /\ listy_i = 1
    /\ all_matching_cards = {}
    /\ csv = None
    /\ exc = None

Exception(line, e) == [kind |-> "raise", line |-> line, exc |-> e]

\* Lines 87-88: one request per page, the responses in page order; a
\* request that failed leaves None in its place.
Fetch ==
    /\ pc = "start"
    /\ responses' = [p \in 1..NumPages |-> Answer(site[p], 1)]
    /\ attempts' = [p \in 1..NumPages |-> 1]
    /\ pc' = "received"
    /\ UNCHANGED <<site, cpu, value, comparison, successful_responses, processes,
                   next_task, running, data, listy_i, all_matching_cards, csv, exc>>

\* Line 90: response.status_code of a None raises AttributeError.
SelectSuccessful ==
    /\ pc = "received"
    /\ IF \E p \in 1..NumPages : responses[p] = None
       THEN /\ pc' = "crashed"
            /\ exc' = Exception(90, "AttributeError")
            /\ UNCHANGED successful_responses
       ELSE /\ successful_responses' =
                 SelectSeq(responses, LAMBDA r : r.status_code = 200)
            /\ pc' = "pool"
            /\ UNCHANGED exc
    /\ UNCHANGED <<site, cpu, value, comparison, responses, attempts, processes,
                   next_task, running, data, listy_i, all_matching_cards, csv>>

\* cpu_count() - 1, line 92
PoolProcesses(n) == n - 1

\* Line 92: Pool(processes=0) raises ValueError.
OpenPool ==
    /\ pc = "pool"
    /\ IF PoolProcesses(cpu) < 1
       THEN /\ pc' = "crashed"
            /\ exc' = Exception(92, "ValueError")
            /\ UNCHANGED <<processes, data>>
       ELSE /\ processes' = PoolProcesses(cpu)
            /\ data' = [i \in 1..Len(successful_responses) |-> Pending]
            /\ pc' = "map"
            /\ UNCHANGED exc
    /\ UNCHANGED <<site, cpu, value, comparison, responses, attempts,
                   successful_responses, next_task, running, listy_i,
                   all_matching_cards, csv>>

\* Line 93, a pool worker taking the next response to scrape.
TaskStart ==
    /\ pc = "map"
    /\ next_task <= Len(successful_responses)
    /\ Cardinality(running) < processes
    /\ running' = running \cup {next_task}
    /\ next_task' = next_task + 1
    /\ UNCHANGED <<site, cpu, value, comparison, pc, responses, attempts,
                   successful_responses, processes, data, listy_i,
                   all_matching_cards, csv, exc>>

\* Lines 95-97 with the set assigned, not added to.
AddAllReplacing(cards, listy) ==
    IF Truthy(listy)
    THEN {AddedName(listy.items[k]) : k \in 1..Len(listy.items)}
    ELSE cards

\* Lines 95-97 for one listy: the set after its offers are added.
AddAll(cards, listy) ==
    IF Truthy(listy)
    THEN cards \cup {AddedName(listy.items[k]) : k \in 1..Len(listy.items)}
    ELSE cards

\* Line 93 with the worker adding what it found to all_matching_cards.
TaskFinishShared(i) ==
    /\ pc = "map"
    /\ i \in running
    /\ data' = [data EXCEPT ![i] = scrape_page(successful_responses[i], value, comparison)]
    /\ all_matching_cards' = AddAll(all_matching_cards, data'[i])
    /\ running' = running \ {i}
    /\ UNCHANGED <<site, cpu, value, comparison, pc, responses, attempts,
                   successful_responses, processes, next_task, listy_i,
                   csv, exc>>

\* Line 93, a pool worker done with scraper(response): its result, or the
\* exception it raised, goes back to main as the entry of its index.
TaskFinish(i) ==
    /\ pc = "map"
    /\ i \in running
    /\ data' = [data EXCEPT ![i] = scrape_page(successful_responses[i], value, comparison)]
    /\ running' = running \ {i}
    /\ UNCHANGED <<site, cpu, value, comparison, pc, responses, attempts,
                   successful_responses, processes, next_task, listy_i,
                   all_matching_cards, csv, exc>>

\* Line 93: pool.map returns the results in the order of the responses
\* once every task is done, or raises again what a task raised.
MapReturn ==
    /\ pc = "map"
    /\ next_task > Len(successful_responses)
    /\ running = {}
    /\ IF \E i \in 1..Len(data) : data[i].kind = "raise"
       THEN /\ pc' = "crashed"
            /\ \E i \in 1..Len(data) :
                 /\ data[i].kind = "raise"
                 /\ exc' = Exception(93, data[i].exc)
       ELSE /\ pc' = "aggregate"
            /\ UNCHANGED exc
    /\ UNCHANGED <<site, cpu, value, comparison, responses, attempts,
                   successful_responses, processes, next_task, running, data,
                   listy_i, all_matching_cards, csv>>

\* Lines 94-97, one turn of the loop over data.
Aggregate ==
    /\ pc = "aggregate"
    /\ listy_i <= Len(data)
    /\ all_matching_cards' = AddAll(all_matching_cards, data[listy_i])
    /\ listy_i' = listy_i + 1
    /\ UNCHANGED <<site, cpu, value, comparison, pc, responses, attempts,
                   successful_responses, processes, next_task, running, data,
                   csv, exc>>

\* Lines 99-101: the names go to the file.
WriteCsv ==
    /\ pc = "aggregate"
    /\ listy_i > Len(data)
    /\ csv' = [kind |-> "file", names |-> all_matching_cards]
    /\ pc' = "done"
    /\ UNCHANGED <<site, cpu, value, comparison, responses, attempts,
                   successful_responses, processes, next_task, running, data,
                   listy_i, all_matching_cards, exc>>

MainNext ==
    \/ Fetch
    \/ SelectSuccessful
    \/ OpenPool
    \/ TaskStart
    \/ \E i \in 1..NumPages : TaskFinish(i)
    \/ MapReturn
    \/ Aggregate
    \/ WriteCsv

Next == MainNext /\ UNCHANGED <<parse_vars, filter_vars>>

Spec == Init /\ [][Next]_vars

ParseSpecInit ==
    /\ ParseInit /\ FilterInit
    /\ site = <<>> /\ cpu = 1 /\ value = Threshold /\ comparison = "lt"
    /\ pc = "idle" /\ responses = <<>> /\ attempts = <<>>
    /\ successful_responses = <<>> /\ processes = 0 /\ next_task = 1
    /\ running = {} /\ data = <<>> /\ listy_i = 1 /\ all_matching_cards = {}
    /\ csv = None /\ exc = None

ParseSpec == ParseSpecInit /\ [][ParseNext /\ UNCHANGED <<filter_vars, main_vars>>]_vars

FilterSpec == ParseSpecInit /\ [][FilterNext /\ UNCHANGED <<parse_vars, main_vars>>]_vars

----------------------------------------------------------------------------
(* Properties                                                              *)

\* The exception sanitize_card_text raises itself, line 33.
MalformedOfferError == "RuntimeError"

PriceKeyed(ps) == {i \in 1..Len(ps) : ps[i].role \in {"price", "badprice"}}

\* An offer text outside the grammar: a piece that is not one key and one
\* value, no product_name, no price, or a price that is no number.
Malformed(ps) ==
    \/ Roles(ps) \cap {"nocolon", "twocolons"} # {}
    \/ "name" \notin Roles(ps)
    \/ PriceKeyed(ps) = {}
    \/ ps[CHOOSE i \in PriceKeyed(ps) : \A j \in PriceKeyed(ps) : j <= i].role = "badprice"

\* C3: for any offer text missing product_name or price, or with a piece
\* that does not split in two on ':', or with a non-numeric price,
\* sanitize_card_text fails with the one error kind of the parser and
\* returns no record.
C3_SingleErrorKind ==
    (ppc = "returned" /\ Malformed(pieces))
        => parse_result = Raise(MalformedOfferError)

\* The half of C3 the code keeps: a text outside the grammar never gives a
\* record.
C3_NeverARecord ==
    (ppc = "returned" /\ Malformed(pieces)) => parse_result.kind = "raise"

\* C4 as claimed: for every well-formed offer text, the record's name is the
\* product_name value without surrounding whitespace and quotes, non-empty,
\* and its price is the number the price value writes.
C4_TrimmedName ==
    (ppc = "returned" /\ WellFormed(pieces))
        => /\ parse_result.kind = "CardOffer"
           /\ parse_result.card_name = Last(pieces, "name").clean
           /\ Len(parse_result.card_name) > 0
           /\ parse_result.card_price = Last(pieces, "price").cents

\* C4 as amended: for every well-formed offer text, the record's name is
\* the product_name value as it stands in the text, whitespace and quotes
\* included (non-empty; only what line 97 adds to the result set is the
\* name without them), and its price is the number the price value writes.
C4_RawName ==
    (ppc = "returned" /\ WellFormed(pieces))
        => /\ parse_result.kind = "CardOffer"
           /\ parse_result.card_name = Last(pieces, "name").raw
           /\ Len(parse_result.card_name) > 0
           /\ AddedName(parse_result) = Last(pieces, "name").clean
           /\ parse_result.card_price = Last(pieces, "price").cents

C4_Witness ==
    /\ ppc = "returned" /\ WellFormed(pieces) /\ Len(pieces) = 3
    /\ parse_result.kind = "CardOffer"
    /\ parse_result.card_name # Last(pieces, "name").clean
    /\ parse_result.card_price = 5

\* What is written into the offers of a call of find_matching_offers.
WrittenOffers(src) ==
    [i \in 1..Len(src) |-> CardOffer(Last(src[i], "name").raw, Last(src[i], "price").cents)]

\* C5: with the less-than comparison find_matching_offers returns exactly
\* the offers whose price is below the value, in the order of the input,
\* nothing added and nothing dropped; no offers in gives no offers out.
C5_FilterLessThan ==
    (fpc = "returned" /\ f_comparison = "lt"
     /\ \A i \in 1..Len(f_src) : WellFormed(f_src[i]))
        => f_result = List(SelectSeq(WrittenOffers(f_src),
                                     LAMBDA o : o.card_price < f_value))

C5_Witness ==
    /\ fpc = "returned" /\ f_comparison = "lt" /\ Len(f_src) = 3
    /\ \A i \in 1..3 : WellFormed(f_src[i])
    /\ f_result.kind = "list" /\ Len(f_result.items) = 2
    /\ f_result.items[1].card_price > f_result.items[2].card_price
    /\ Last(f_src[2], "price").cents = f_value

\* The names written into the pages that answer 200 at once and hold
\* offers in every product, for the offers below the value.
ScrapedPages == {p \in 1..NumPages : site[p].fails = 0 /\ site[p].page.shape = "offers"}
MatchingNames(p) == {o.name : o \in {w \in site[p].page.offers : w.cents < value}}
ExpectedNames == UNION {MatchingNames(p) : p \in ScrapedPages}

\* A first request that failed: no response, a status that is not 200, or a
\* page with a malformed offer text.
FirstAttemptFailed(p) == site[p].fails >= 1 \/ site[p].page.shape = "malformed"

\* C1: a page whose first attempt fails is tried exactly once more, and no
\* page more than twice; a page that fails once and then answers gives its
\* matching offers.
C1_OneRetry ==
    pc = "done" => \A p \in 1..NumPages :
        /\ attempts[p] <= 2
        /\ FirstAttemptFailed(p) => attempts[p] = 2
        /\ site[p].fails = 1 => MatchingNames(p) \subseteq csv.names

\* C2: no failure of a page (no response, a status that is not 200, a
\* malformed offer text) ends main: main reaches the write, and the file
\* holds every matching name of the pages scraped successfully.
C2_FailuresContained ==
    /\ (pc = "crashed" => exc.line \notin {90, 93})
    /\ (pc = "done" => ExpectedNames \subseteq csv.names)

Matched == {i \in 1..Len(data) : data[i].kind = "list"}
OffersNamed(i, name) ==
    {k \in 1..Len(data[i].items) : AddedName(data[i].items[k]) = name}
TwiceAtTwoPrices(name) ==
    \E i, j \in Matched : i # j /\
        \E k \in OffersNamed(i, name), l \in OffersNamed(j, name) :
            data[i].items[k].card_price # data[j].items[l].card_price

\* The rows of the file with this name.
Entries(name) == Cardinality({n \in csv.names : n = name})

DedupModes == {"name-keyed", "price-preserving"}

\* C6: a name matched on two pages at two prices has one entry in the
\* result under the name-keyed mode and two under the price-preserving
\* mode, and main offers both.
C6_BothModes ==
    pc = "done" => \A name \in {CardA, CardB, CardC} : TwiceAtTwoPrices(name) =>
        \A mode \in DedupModes :
            Entries(name) = IF mode = "name-keyed" THEN 1 ELSE 2

\* The outcomes aggregated so far, as a set: neither their order nor their
\* number of occurrences is in it.
Aggregated == {data[i] : i \in {j \in Matched : j < listy_i}}
NamesOf(listy) == {AddedName(listy.items[k]) : k \in 1..Len(listy.items)}

\* C7: the result set is a function of the set of Matched outcomes fed to
\* the aggregation: any order of the same outcomes, and any outcome fed
\* twice, gives the same set.
C7_OrderIndependent ==
    pc \in {"aggregate", "done"}
        => all_matching_cards = UNION {NamesOf(o) : o \in Aggregated}

C7_Witness ==
    /\ pc = "done" /\ Len(data) = 3
    /\ \A i \in 1..3 : Truthy(data[i])
    /\ data[1] = data[3] /\ data[1] # data[2]
    /\ NamesOf(data[2]) # NamesOf(data[3])
    /\ Cardinality(csv.names) = 2

OffersAbsent(response) ==
    \E k \in 1..Len(response.content) : ~response.content[k].offers

WithOffersAbsent == {i \in 1..Len(data) : OffersAbsent(successful_responses[i])}

\* C8: a page with one product whose offers element is absent gives None
\* for the whole page, whatever its other products hold: no list, no
\* exception; it adds nothing to the result, and the file holds the names
\* of the other pages.
C8_AbsentOffersEmpty ==
    /\ \A i \in WithOffersAbsent : data[i] \in {Pending, None}
    /\ pc \in {"aggregate", "done"} =>
         all_matching_cards \subseteq
             UNION {NamesOf(data[i]) : i \in Matched \ WithOffersAbsent}
    /\ pc = "done" => csv.names = ExpectedNames

C8_Witness ==
    /\ pc = "done"
    /\ \E i \in WithOffersAbsent :
         /\ Len(successful_responses[i].content) = 2
         /\ data[i] = None
    /\ csv.names = {CardA}

\* C9: the result set changes only in a step of main's own loop, with no
\* task of the pool running; a step of a pool worker leaves the set, the
\* value and the comparison alone and writes the one entry of its task.
C9_SingleWriter ==
    [][ /\ (all_matching_cards' # all_matching_cards)
            => (pc = "aggregate" /\ running = {} /\ data' = data)
        /\ (running' # running)
            => /\ all_matching_cards' = all_matching_cards
               /\ value' = value /\ comparison' = comparison
               /\ \A i \in 1..Len(data) : data'[i] # data[i] => i \in running \ running'
      ]_vars

C9_Witness ==
    /\ pc = "map" /\ Cardinality(running) = 2
    /\ \E i \in 1..Len(data) : Truthy(data[i])
    /\ all_matching_cards = {}

Max(a, b) == IF a > b THEN a ELSE b

\* C10: the pool has max(1, cpu_count() - 1) workers, at least one also
\* with a single CPU.
C10_PoolSize ==
    (pc \in {"map", "aggregate", "done"} \/ (pc = "crashed" /\ exc.line >= 92))
        => processes = Max(1, cpu - 1)

====
